---- MODULE Spec2Model ----
(***************************************************************************)
(* Hierarchical-Agents: a top-level supervisor routing between a research  *)
(* team and a writing team, each team a supervisor-coordinated graph of    *)
(* worker agents.  The model follows src/src/hierarchical_agents: the      *)
(* construction of HierarchicalSystem, the supervisor node, the worker and *)
(* team nodes and run_sync.  The graphs are LangGraph StateGraphs; the     *)
(* engine's part (one node visit per superstep, the recursion limit        *)
(* counted in node visits, a goto naming no node of the graph scheduling   *)
(* nothing) is modelled where the code calls graph.invoke.                 *)
(***************************************************************************)
EXTENDS Integers, Sequences, FiniteSets, TLC

(***************************************************************************)
(* Bounds of the model.                                                    *)
(***************************************************************************)
\* largest recursion_limit argument given to run_sync
MaxRecursionLimit == 6
\* longest file the file tools leave behind, in chunks
MaxFileLen == 6
\* largest line number an edit_document call names
MaxLineNo == 3
\* most entries of the inserts of an edit_document call
MaxInserts == 2
\* most points of a create_outline call
MaxPoints == 2
\* Config.recursion_limit, set to 150 in config.py:29; the model runs it
\* scaled down, since a message history of 150 visits cannot be enumerated
recursion_limit_default == 3

(***************************************************************************)
(* Labels, rosters and graphs.                                             *)
(***************************************************************************)
\* langgraph.graph.END, the terminal sentinel
END == "__end__"
FINISH == "FINISH"
\* the `next` key of a State no supervisor has written yet
Unset == "unset"
\* a response that carries no `next` field
NoNext == "no_next"

Graphs == {"top", "research", "writing"}
Teams == {"research", "writing"}

members(g) ==
    CASE g = "top" -> {"research_team", "writer_team"}
      [] g = "research" -> {"search", "web_scraper"}
      [] g = "writing" -> {"doc_writer", "note_taker", "chart_generator"}
      [] OTHER -> {}

\* the nodes _build_graph adds to the graph g
GraphNodes(g) == {"supervisor"} \cup members(g)

\* the team a top-level team node delegates to
TeamOf(node) == IF node = "research_team" THEN "research" ELSE "writing"

\* Router.next is a plain str: the LLM can name a member, FINISH, or a
\* string outside the roster ("bogus" stands for every string that names no
\* node of the graph; a response naming the supervisor node itself is not
\* among the enumerated inputs)
Labels(g) == members(g) \cup {FINISH, "bogus"}

\* what llm.with_structured_output(Router).invoke can give the supervisor:
\* a dict or an object, with or without `next` (None is an object without
\* it), an object whose attribute access raises, or an exception of the call
Responses(g) ==
    [kind : {"dict", "object"}, next : Labels(g) \cup {NoNext}]
    \cup {[kind |-> "raising_object", next |-> NoNext],
          [kind |-> "invoke_error", next |-> NoNext]}

\* text a worker agent's last message can hold
Contents == {"", "txt"}
UserInput == "Research AI agents and write a brief report about them."
Keys == {"", "key"}

Last(s) == s[Len(s)]

VARIABLES
    config,         \* Config: the three API keys and recursion_limit
    toolsManager,   \* the class the tools manager object is an instance of
    initPc,         \* position of HierarchicalSystem.__init__
    created,        \* components __init__ has created, in order
    status,         \* run_sync: idle, running, returned, limit_exceeded, error
    failedIn,       \* the graph whose recursion limit stopped the run
    args,           \* the recursion_limit argument of run_sync
    limit,          \* the recursion limit in force
    topNode,        \* node of the top-level graph scheduled next
    topSteps,       \* node visits of the top-level graph so far
    topMsgs,        \* state["messages"] of the top-level graph
    topNext,        \* state["next"] of the top-level graph
    topDecisions,   \* labels the top-level supervisor routed to, in order
    team,           \* the team whose nested graph is running, or "none"
    teamStatus,     \* idle, running, done, limit_exceeded, error
    teamNode,       \* node of the nested graph scheduled next
    teamSteps,      \* node visits of the nested graph so far
    teamMsgs,       \* state["messages"] of the nested graph
    teamNext,       \* state["next"] of the nested graph
    teamDecisions,  \* labels the team supervisor routed to, in order
    teamInvoked,    \* worker agents invoked by the nested graph, in order
    response,       \* response["messages"][-1] of the last team.invoke
    files,          \* the file system: resolved path -> content, or Missing
    lastCall,       \* the last tool call: the tool and its arguments
    toolResult,     \* what the last tool call gave its caller
    mode,           \* how the graph is run: "invoke" (run_sync), "stream" (run)
    yielded,        \* what the iterator run returned has yielded so far
    result          \* what run_sync has returned

cfgVars == <<config, toolsManager, initPc, created>>
runVars == <<status, failedIn, args, limit, mode>>
topVars == <<topNode, topSteps, topMsgs, topNext, topDecisions, response,
             yielded, result>>
teamVars == <<team, teamStatus, teamNode, teamSteps, teamMsgs, teamNext,
              teamDecisions, teamInvoked>>
toolVars == <<files, lastCall, toolResult>>
vars == <<cfgVars, runVars, topVars, teamVars, toolVars>>

(***************************************************************************)
(* ToolsManager: texts, paths and the file system the file tools work on.  *)
(***************************************************************************)
\* a text is a sequence of chunks: NL is the newline character, every other
\* chunk is a piece of text without a newline
NL == "\n"

\* the path ToolsManager.__init__ takes from TemporaryDirectory()
working_dir == <<"tmp", "wd">>
\* the directories that exist: the temporary directory and its parent
Dirs == {<<"tmp">>, <<"tmp", "wd">>}

\* the file_name arguments: a plain name, a name under a directory that does
\* not exist, a name with a parent-directory component, an absolute path
FileNames == {"doc.txt", "sub/doc.txt", "../doc.txt", "/tmp/doc.txt"}

\* the components of a file_name
Parts(file_name) ==
    CASE file_name = "doc.txt" -> <<"doc.txt">>
      [] file_name = "sub/doc.txt" -> <<"sub", "doc.txt">>
      [] file_name = "../doc.txt" -> <<"..", "doc.txt">>
      [] file_name = "/tmp/doc.txt" -> <<"tmp", "doc.txt">>

IsAbsolute(file_name) == file_name = "/tmp/doc.txt"

\* the file the operating system opens for a path: a ".." component leaves
\* the directory reached so far
RECURSIVE Normalise(_, _)
Normalise(done, rest) ==
    IF rest = <<>> THEN done
    ELSE IF Head(rest) = ".."
         THEN Normalise(IF done = <<>> THEN done
                        ELSE SubSeq(done, 1, Len(done) - 1), Tail(rest))
         ELSE Normalise(Append(done, Head(rest)), Tail(rest))

\* working_dir / file_name, as pathlib joins and open() follows it: an
\* absolute file_name replaces the working directory
Resolve(file_name) ==
    IF IsAbsolute(file_name) THEN Parts(file_name)
    ELSE Normalise(working_dir, Parts(file_name))

\* the directory a path lies in
Parent(path) == SubSeq(path, 1, Len(path) - 1)

\* the path lies in the working directory
Inside(path) ==
    /\ Len(path) > Len(working_dir)
    /\ SubSeq(path, 1, Len(working_dir)) = working_dir

\* the index of the first newline of a text, or its length if it has none
RECURSIVE LineEnd(_, _)
LineEnd(text, i) ==
    IF i >= Len(text) \/ text[i] = NL THEN i ELSE LineEnd(text, i + 1)

\* file.readlines(): the lines of a text, each with its newline if it has one
RECURSIVE readlines(_)
readlines(text) ==
    IF text = <<>> THEN <<>>
    ELSE LET i == LineEnd(text, 1)
         IN <<SubSeq(text, 1, i)>> \o readlines(SubSeq(text, i + 1, Len(text)))

\* file.writelines(lines): the lines one after the other, nothing between
RECURSIVE writelines(_)
writelines(lines) ==
    IF lines = <<>> THEN <<>> ELSE Head(lines) \o writelines(Tail(lines))

\* sep.join(lines)
RECURSIVE Join(_, _)
Join(sep, lines) ==
    IF lines = <<>> THEN <<>>
    ELSE IF Len(lines) = 1 THEN Head(lines)
         ELSE Head(lines) \o sep \o Join(sep, Tail(lines))

\* an Optional[int] argument: None, or a number
None == [given |-> FALSE, value |-> 0]
Some(n) == [given |-> TRUE, value |-> n]

\* lines[start:end] for start >= 0 and end None or >= 0
Slice(lines, start, end) ==
    LET hi == IF end.given /\ end.value < Len(lines) THEN end.value
              ELSE Len(lines)
    IN SubSeq(lines, start + 1, hi)

\* lines.insert(index, item) for index >= 0: an index beyond the end appends
Insert(lines, index, item) ==
    LET i == IF index > Len(lines) THEN Len(lines) ELSE index
    IN SubSeq(lines, 1, i) \o <<item>> \o SubSeq(lines, i + 1, Len(lines))

\* a line without its newline
Strip(line) ==
    IF line # <<>> /\ Last(line) = NL THEN SubSeq(line, 1, Len(line) - 1)
    ELSE line

\* the lines of a text as a reader sees them, newlines taken off
Lines(text) == LET ls == readlines(text) IN [i \in 1..Len(ls) |-> Strip(ls[i])]

(***************************************************************************)
(* Config and the construction of HierarchicalSystem.                      *)
(***************************************************************************)
\* validate with the search-provider key left out of required_keys
validate_groq_only(cfg) == cfg.groq_api_key # ""

\* Config.validate: all(key.get_secret_value() for key in [groq, tavily])
validate(cfg) == cfg.groq_api_key # "" /\ cfg.tavily_api_key # ""

\* what __init__ creates after validation, in the order of the code
InitOrder == <<"llm", "tools_manager", "research_team", "writing_team",
               "supervisor_node", "graph">>

\* the classes a tools manager object can be an instance of: ToolsManager of
\* tools.py, as __init__ creates it, or a stand-in put in its place that
\* offers the scrape tool as an attribute as well
ToolsManagers == {"ToolsManager", "stand_in"}

\* the attributes and methods of a tools manager object (tools.py: 20-23,
\* 25-39, 41-144)
Attributes(tm) ==
    {"tavily", "_temp_dir", "working_dir", "repl", "get_research_tools",
     "get_writing_tools", "get_note_taking_tools", "get_chart_tools",
     "_create_scrap_web_tool"}
    \cup (IF tm = "stand_in" THEN {"scrap_web"} ELSE {})

\* the attributes of the tools manager the constructor of a component reads
Reads(component) ==
    CASE component = "research_team" -> {"tavily", "scrap_web"}
      [] component = "writing_team" ->
           {"get_writing_tools", "get_note_taking_tools", "get_chart_tools"}
      [] OTHER -> {}

\* no file exists
NoFiles == [path \in {} |-> <<>>]
\* no tool has been called
NoCall == [tool |-> "none", file_name |-> "", content |-> <<>>,
           inserts |-> [k \in {} |-> <<>>], start |-> None, end |-> None]
NoResult == [kind |-> "none", what |-> "", text |-> <<>>, line_number |-> 0]
\* no team has returned a response
NoMessage == [name |-> "none", content |-> ""]
\* run_sync has returned nothing
NoState == [messages |-> <<>>, next |-> Unset]

Init ==
    /\ config \in [openai_api_key : Keys, tavily_api_key : Keys,
                   groq_api_key : Keys,
                   recursion_limit : {recursion_limit_default}]
    /\ toolsManager \in ToolsManagers
    /\ response = NoMessage
    /\ files = NoFiles
    /\ lastCall = NoCall
    /\ toolResult = NoResult
    /\ mode = "none"
    /\ yielded = <<>>
    /\ result = NoState
    /\ initPc = "validate"
    /\ created = <<>>
    /\ status = "idle"
    /\ failedIn = "none"
    /\ args = [given |-> FALSE, value |-> 0]
    /\ limit = 0
    /\ topNode = "none"
    /\ topSteps = 0
    /\ topMsgs = <<>>
    /\ topNext = Unset
    /\ topDecisions = <<>>
    /\ team = "none"
    /\ teamStatus = "idle"
    /\ teamNode = "none"
    /\ teamSteps = 0
    /\ teamMsgs = <<>>
    /\ teamNext = Unset
    /\ teamDecisions = <<>>
    /\ teamInvoked = <<>>

\* __init__, lines 28-30: raise ValueError unless config.validate()
Validate ==
    /\ initPc = "validate"
    /\ initPc' = IF validate(config) THEN "building" ELSE "config_error"
    /\ UNCHANGED <<config, toolsManager, created, runVars, topVars, teamVars,
                   toolVars>>

\* __init__, lines 32-53: ChatGroq, ToolsManager, the teams, the top
\* supervisor node and the graph, one after the other; a constructor that
\* reads an attribute the tools manager does not have raises AttributeError
Build ==
    /\ initPc = "building"
    /\ LET component == InitOrder[Len(created) + 1] IN
       IF Reads(component) \subseteq Attributes(toolsManager)
       THEN /\ created' = Append(created, component)
            /\ initPc' = IF Len(created') = Len(InitOrder) THEN "ready"
                         ELSE "building"
       ELSE /\ initPc' = "attribute_error"
            /\ UNCHANGED created
    /\ UNCHANGED <<config, toolsManager, runVars, topVars, teamVars, toolVars>>

(***************************************************************************)
(* The supervisor node.                                                    *)
(***************************************************************************)
\* supervisor_node, lines 47-57: the label the node routes to
SupervisorGoto(resp) ==
    LET goto == CASE resp.kind = "dict" ->
                       IF resp.next = NoNext THEN FINISH ELSE resp.next
                  [] resp.kind = "object" ->
                       IF resp.next = NoNext THEN FINISH ELSE resp.next
                  [] OTHER -> FINISH
    IN IF goto = FINISH THEN END ELSE goto

(***************************************************************************)
(* The graph engine, as graph.invoke drives the compiled graphs.           *)
(***************************************************************************)
\* Scheduled that takes every label but END for a node to wait for
ScheduledUnchecked(g, goto) == IF goto = END THEN "none" ELSE goto

\* the node a Command(goto=...) schedules in graph g: a label that names no
\* node of the graph (END included) schedules nothing and the graph is done
Scheduled(g, goto) == IF goto \in GraphNodes(g) THEN goto ELSE "none"

\* OutOfSteps that lets one more visit through
OutOfStepsLate(steps, lim) == steps > lim

\* the engine's step count reached the recursion limit: the visit that made
\* it so was the last one, and GraphRecursionError is raised
OutOfSteps(steps, lim) == steps >= lim

\* a worker that hands control to itself
WorkerGotoSelf(g, node) == node

\* a worker that hands control to the end of the run
WorkerGotoEnd(g, node) == END

\* the goto of every worker and team node: Command(goto="supervisor")
WorkerGoto(g, node) == "supervisor"

\* an update that overwrites the history instead of being appended to it
WorkerUpdateOverwrite(msgs, node, content) ==
    <<[name |-> node, content |-> content]>>

\* the update of every worker and team node: one HumanMessage named after
\* the node, appended by the add_messages reducer
WorkerUpdate(msgs, node, content) ==
    Append(msgs, [name |-> node, content |-> content])

\* ("user", user_input) as run_sync puts it in the initial state
UserMessage == [name |-> "", content |-> UserInput]

\* a chunk that leaves the `next` of the update out
ChunkWithoutNext(node, next, messages) ==
    [node |-> node, update |-> [next |-> <<>>, messages |-> messages]]

\* what graph.stream yields for a node visit, {node: update}: the update of
\* the Command the node returned, `next` (if it has one) and messages
Chunk(node, next, messages) ==
    [node |-> node, update |-> [next |-> next, messages |-> messages]]

\* the iterator after a node visit: one more chunk when the graph is streamed
Yield(chunk) == IF mode = "stream" THEN Append(yielded, chunk) ELSE yielded

\* graph.invoke returns the values of the state once the graph is done
Return(done, messages, next) ==
    IF mode = "invoke" /\ done THEN [messages |-> messages, next |-> next]
    ELSE result

(***************************************************************************)
(* run_sync and the top-level graph.                                       *)
(***************************************************************************)
\* run_sync, lines 99-107: the limit is the argument, or the configured one
RunSync(a) ==
    /\ initPc = "ready"
    /\ status = "idle"
    /\ args' = a
    /\ limit' = IF a.given THEN a.value ELSE config.recursion_limit
    /\ mode' = "invoke"
    /\ status' = "running"
    /\ topMsgs' = <<UserMessage>>
    /\ topNode' = "supervisor"
    /\ UNCHANGED <<cfgVars, failedIn, topSteps, topNext, topDecisions,
                   response, yielded, result, teamVars, toolVars>>

\* run, lines 89-97, and the iteration of what it returns: graph.stream runs
\* the graph as graph.invoke does and yields after every node visit
Run(a) ==
    /\ initPc = "ready"
    /\ status = "idle"
    /\ args' = a
    /\ limit' = IF a.given THEN a.value ELSE config.recursion_limit
    /\ mode' = "stream"
    /\ status' = "running"
    /\ topMsgs' = <<UserMessage>>
    /\ topNode' = "supervisor"
    /\ UNCHANGED <<cfgVars, failedIn, topSteps, topNext, topDecisions,
                   response, yielded, result, teamVars, toolVars>>

\* one visit of the top-level supervisor node
TopSupervisor(resp) ==
    /\ status = "running"
    /\ team = "none"
    /\ topNode = "supervisor"
    /\ IF resp.kind = "invoke_error"
       THEN /\ status' = "error"
            /\ UNCHANGED <<failedIn, topVars>>
       ELSE LET goto == SupervisorGoto(resp) IN
            /\ topNext' = goto
            /\ topDecisions' = Append(topDecisions, goto)
            /\ topSteps' = topSteps + 1
            /\ topNode' = Scheduled("top", goto)
            /\ UNCHANGED <<topMsgs, response>>
            /\ IF OutOfSteps(topSteps', limit)
               THEN status' = "limit_exceeded" /\ failedIn' = "top"
               ELSE /\ status' = IF topNode' = "none" THEN "returned"
                                 ELSE "running"
                    /\ UNCHANGED failedIn
            /\ yielded' = Yield(Chunk("supervisor", <<goto>>, <<>>))
            /\ result' = Return(status' = "returned", topMsgs', topNext')
    /\ UNCHANGED <<cfgVars, args, limit, mode, teamVars, toolVars>>

(***************************************************************************)
(* The team nodes of the top-level graph and the nested team graphs.       *)
(***************************************************************************)
\* team.invoke passes no config of its own: the nested graph.invoke runs
\* under the configuration of the node that calls it, recursion limit
\* included, and counts its own node visits from zero
NestedLimit(lim) == lim

\* a team node that does not wait for the nested graph to finish
TeamCompletedEarly == teamStatus \in {"running", "done"}

\* the nested graph has returned its final state to the team node
TeamCompleted == teamStatus = "done"

\* a team input that hands over the whole history
AllMessages(msgs) == msgs

\* state["messages"][-1:]
LastMessages(msgs) == SubSeq(msgs, Len(msgs), Len(msgs))

\* a team node that reports what the team was given, not what it produced
TeamContentFirst(msgs) == msgs[1].content

\* response["messages"][-1].content
TeamContent(msgs) == Last(msgs).content

\* _call_research_team / _call_writer_team, first line: team.invoke on
\* state["messages"][-1:], a fresh nested state starting at the supervisor
CallTeam ==
    /\ status = "running"
    /\ team = "none"
    /\ topNode \in members("top")
    /\ team' = TeamOf(topNode)
    /\ teamStatus' = "running"
    /\ teamNode' = "supervisor"
    /\ teamSteps' = 0
    /\ teamMsgs' = LastMessages(topMsgs)
    /\ teamNext' = Unset
    /\ teamDecisions' = <<>>
    /\ teamInvoked' = <<>>
    /\ UNCHANGED <<cfgVars, runVars, topVars, toolVars>>

\* one visit of the team's supervisor node; an exception of the LLM call or
\* the nested GraphRecursionError leaves the team node and run_sync uncaught
TeamSupervisor(resp) ==
    /\ status = "running"
    /\ team # "none"
    /\ teamStatus = "running"
    /\ teamNode = "supervisor"
    /\ IF resp.kind = "invoke_error"
       THEN /\ status' = "error"
            /\ teamStatus' = "error"
            /\ UNCHANGED <<failedIn, teamNode, teamSteps, teamNext,
                           teamDecisions>>
       ELSE LET goto == SupervisorGoto(resp) IN
            /\ teamNext' = goto
            /\ teamDecisions' = Append(teamDecisions, goto)
            /\ teamSteps' = teamSteps + 1
            /\ teamNode' = Scheduled(team, goto)
            /\ IF OutOfSteps(teamSteps', NestedLimit(limit))
               THEN /\ teamStatus' = "limit_exceeded"
                    /\ status' = "limit_exceeded"
                    /\ failedIn' = team
               ELSE /\ teamStatus' = IF teamNode' = "none" THEN "done"
                                     ELSE "running"
                    /\ UNCHANGED <<status, failedIn>>
    /\ UNCHANGED <<cfgVars, args, limit, mode, topVars, team, teamMsgs,
                   teamInvoked, toolVars>>

\* one visit of a worker node: the agent is invoked on the state and its
\* last message comes back as one message named after the worker
TeamWorker(content) ==
    /\ status = "running"
    /\ team # "none"
    /\ teamStatus = "running"
    /\ teamNode \in members(team)
    /\ teamInvoked' = Append(teamInvoked, teamNode)
    /\ teamMsgs' = WorkerUpdate(teamMsgs, teamNode, content)
    /\ teamSteps' = teamSteps + 1
    /\ teamNode' = Scheduled(team, WorkerGoto(team, teamNode))
    /\ IF OutOfSteps(teamSteps', NestedLimit(limit))
       THEN /\ teamStatus' = "limit_exceeded"
            /\ status' = "limit_exceeded"
            /\ failedIn' = team
       ELSE /\ teamStatus' = IF teamNode' = "none" THEN "done" ELSE "running"
            /\ UNCHANGED <<status, failedIn>>
    /\ UNCHANGED <<cfgVars, args, limit, mode, topVars, team, teamNext,
                   teamDecisions, toolVars>>

\* _call_research_team / _call_writer_team, the return: one message named
\* after the team node, holding the content of the last message of the
\* team's final state; the nested state is dropped
TeamReturn ==
    /\ status = "running"
    /\ team # "none"
    /\ TeamCompleted
    /\ topMsgs' = WorkerUpdate(topMsgs, topNode, TeamContent(teamMsgs))
    /\ topSteps' = topSteps + 1
    /\ topNode' = Scheduled("top", WorkerGoto("top", topNode))
    /\ IF OutOfSteps(topSteps', limit)
       THEN status' = "limit_exceeded" /\ failedIn' = "top"
       ELSE /\ status' = IF topNode' = "none" THEN "returned" ELSE "running"
            /\ UNCHANGED failedIn
    /\ team' = "none"
    /\ teamStatus' = "idle"
    /\ teamNode' = "none"
    /\ teamSteps' = 0
    /\ teamMsgs' = <<>>
    /\ teamNext' = Unset
    /\ teamDecisions' = <<>>
    /\ teamInvoked' = <<>>
    /\ response' = Last(teamMsgs)
    /\ UNCHANGED <<cfgVars, args, limit, mode, topNext, topDecisions,
                   toolVars>>
    /\ yielded' = Yield(Chunk(topNode, <<>>, <<Last(topMsgs')>>))
    /\ result' = Return(status' = "returned", topMsgs', topNext')

\* the recursion_limit arguments run_sync is called with: omitted, or a number
RunArgs ==
    [given : {TRUE}, value : 1..MaxRecursionLimit]
    \cup {[given |-> FALSE, value |-> 0]}

Next ==
    \/ Validate
    \/ Build
    \/ \E a \in RunArgs : RunSync(a)
    \/ \E resp \in Responses("top") : TopSupervisor(resp)
    \/ CallTeam
    \/ \E resp \in Responses(team) : TeamSupervisor(resp)
    \/ \E content \in Contents : TeamWorker(content)
    \/ TeamReturn

Spec == Init /\ [][Next]_vars

\* every enabled step is eventually taken: graph.invoke runs its loop until
\* the graph is done or an exception leaves it, and every call returns
FairSpec == Spec /\ WF_vars(Next)

\* the system run either way, by run_sync or by run
StreamNext ==
    \/ Next
    \/ \E a \in RunArgs : Run(a)

StreamSpec == Init /\ [][StreamNext]_vars

(***************************************************************************)
(* The tools of ToolsManager, called on a tools manager of their own.      *)
(***************************************************************************)
\* the texts write_document is called with: empty, one line, several lines,
\* with and without a final newline
Documents ==
    {<<>>, <<"a">>, <<"a", NL>>, <<"a", NL, "c">>, <<"a", NL, "c", NL>>}

\* the texts written under a file_name: all of them under the plain name,
\* one under each of the others
TextsFor(file_name) ==
    IF file_name = "doc.txt" THEN Documents ELSE {<<"a">>}

\* the texts edit_document is asked to insert
InsertTexts == {<<"b">>}

\* the inserts arguments: a dictionary from line numbers to texts
InsertsArgs ==
    UNION {[ks -> InsertTexts] :
               ks \in {K \in SUBSET (0..MaxLineNo) : Cardinality(K) <= MaxInserts}}

\* the inserts an edit_document call under a file_name is given: all of them
\* under the plain name, those of the first line under each of the others
Inserts(file_name) ==
    IF file_name = "doc.txt" THEN InsertsArgs
    ELSE {inserts \in InsertsArgs : DOMAIN inserts \subseteq {Len(<<"a">>)}}

\* the start and end arguments of read_document
StartArgs == {None, Some(Len(<<"a">>))}
EndArgs == {None}

\* the points arguments of create_outline, each point one chunk
PointsArgs == UNION {[1..n -> {"p"}] : n \in 0..MaxPoints}

\* the file system after a text is written to the file at a path
Put(fs, path, text) ==
    [p \in DOMAIN fs \cup {path} |-> IF p = path THEN text ELSE fs[p]]

\* open(path, "r") finds a file
CanRead(fs, path) == path \in DOMAIN fs

\* open(path, "w") can create or truncate the file
CanWrite(fs, path) == Parent(path) \in Dirs

\* what a tool call gives its caller: a text, or an exception
Returned(what, text) ==
    [kind |-> "returned", what |-> what, text |-> text, line_number |-> 0]
OutOfRange(line_number) ==
    [kind |-> "returned", what |-> "Error: Line number is out of range.",
     text |-> <<>>, line_number |-> line_number]
Raised(exception) ==
    [kind |-> "raised", what |-> exception, text |-> <<>>, line_number |-> 0]

\* a range test that lets every line number from 1 on through
InRangeNoEnd(line_number, lines) == 1 <= line_number

\* edit_document, line 121: 1 <= line_number <= len(lines) + 1
InRange(line_number, lines) ==
    1 <= line_number /\ line_number <= Len(lines) + 1

\* edit_document, lines 118-124: the inserts in the order of their line
\* numbers, each into the list as the earlier ones left it; the first line
\* number out of range ends the loop
RECURSIVE ApplyInserts(_, _, _)
ApplyInserts(lines, inserts, keys) ==
    IF keys = {} THEN [ok |-> TRUE, lines |-> lines, line_number |-> 0]
    ELSE LET line_number == CHOOSE k \in keys : \A j \in keys : k <= j IN
         IF InRange(line_number, lines)
         THEN ApplyInserts(Insert(lines, line_number - 1,
                                  Append(inserts[line_number], NL)),
                           inserts, keys \ {line_number})
         ELSE [ok |-> FALSE, lines |-> lines, line_number |-> line_number]

\* create_outline, lines 64-65: f"{i + 1}. {point}\n" for every point
RECURSIVE OutlineText(_, _)
OutlineText(points, i) ==
    IF i > Len(points) THEN <<>>
    ELSE <<ToString(i), ". ", points[i], NL>> \o OutlineText(points, i + 1)

\* the tools exist once ToolsManager has been created
ToolsCreated == \E i \in 1..Len(created) : created[i] = "tools_manager"

Call(tool, file_name) ==
    [NoCall EXCEPT !.tool = tool, !.file_name = file_name]

\* create_outline, lines 57-66
create_outline(points, file_name) ==
    LET path == Resolve(file_name) IN
    /\ ToolsCreated
    /\ Len(OutlineText(points, 1)) <= MaxFileLen
    /\ lastCall' = [Call("create_outline", file_name) EXCEPT !.content = points]
    /\ IF CanWrite(files, path)
       THEN /\ files' = Put(files, path, OutlineText(points, 1))
            /\ toolResult' = Returned("Outline saved to", <<>>)
       ELSE /\ toolResult' = Raised("FileNotFoundError")
            /\ UNCHANGED files
    /\ UNCHANGED <<cfgVars, runVars, topVars, teamVars>>

\* read_document, lines 73-84
read_document(file_name, start, end) ==
    LET path == Resolve(file_name) IN
    /\ ToolsCreated
    /\ lastCall' = [Call("read_document", file_name)
                       EXCEPT !.start = start, !.end = end]
    /\ IF CanRead(files, path)
       THEN LET lines == readlines(files[path])
                from == IF start.given THEN start.value ELSE 0
            IN toolResult' = Returned("content",
                                      Join(<<NL>>, Slice(lines, from, end)))
       ELSE toolResult' = Raised("FileNotFoundError")
    /\ UNCHANGED <<files, cfgVars, runVars, topVars, teamVars>>

\* write_document, lines 91-100
write_document(content, file_name) ==
    LET path == Resolve(file_name) IN
    /\ ToolsCreated
    /\ Len(content) <= MaxFileLen
    /\ lastCall' = [Call("write_document", file_name) EXCEPT !.content = content]
    /\ IF CanWrite(files, path)
       THEN /\ files' = Put(files, path, content)
            /\ toolResult' = Returned("Document saved to", <<>>)
       ELSE /\ toolResult' = Raised("FileNotFoundError")
            /\ UNCHANGED files
    /\ UNCHANGED <<cfgVars, runVars, topVars, teamVars>>

\* edit_document, lines 106-130
edit_document(file_name, inserts) ==
    LET path == Resolve(file_name) IN
    /\ ToolsCreated
    /\ lastCall' = [Call("edit_document", file_name) EXCEPT !.inserts = inserts]
    /\ IF CanRead(files, path)
       THEN LET done == ApplyInserts(readlines(files[path]), inserts,
                                     DOMAIN inserts)
            IN IF done.ok
               THEN /\ Len(writelines(done.lines)) <= MaxFileLen
                    /\ files' = Put(files, path, writelines(done.lines))
                    /\ toolResult' = Returned("Document edited and saved to",
                                              <<>>)
               ELSE /\ toolResult' = OutOfRange(done.line_number)
                    /\ UNCHANGED files
       ELSE /\ toolResult' = Raised("FileNotFoundError")
            /\ UNCHANGED files
    /\ UNCHANGED <<cfgVars, runVars, topVars, teamVars>>

\* scrap_web, lines 44-50: WebBaseLoader(urls).load() fetches the pages or
\* raises what the HTTP client raises
scrap_web(outcome) ==
    /\ ToolsCreated
    /\ lastCall' = Call("scrap_web", "")
    /\ toolResult' = IF outcome = "loaded" THEN Returned("Document name:", <<>>)
                     ELSE Raised(outcome)
    /\ UNCHANGED <<files, cfgVars, runVars, topVars, teamVars>>

\* python_repl_tool, lines 136-143: whatever repl.run raises is caught
python_repl_tool(outcome) ==
    /\ ToolsCreated
    /\ lastCall' = Call("python_repl_tool", "")
    /\ toolResult' = IF outcome = "ran" THEN Returned("results", <<>>)
                     ELSE Returned("Failed to execute code:", <<>>)
    /\ UNCHANGED <<files, cfgVars, runVars, topVars, teamVars>>

\* the state after self.tools_manager = ToolsManager(...), line 41: a valid
\* configuration, the LLM client and the tools manager created, nothing run
ToolInit ==
    /\ config = [openai_api_key |-> "", tavily_api_key |-> "key",
                 groq_api_key |-> "key",
                 recursion_limit |-> recursion_limit_default]
    /\ toolsManager = "ToolsManager"
    /\ initPc = "building"
    /\ created = <<"llm", "tools_manager">>
    /\ response = NoMessage
    /\ files = NoFiles
    /\ lastCall = NoCall
    /\ toolResult = NoResult
    /\ mode = "none"
    /\ yielded = <<>>
    /\ result = NoState
    /\ status = "idle"
    /\ failedIn = "none"
    /\ args = [given |-> FALSE, value |-> 0]
    /\ limit = 0
    /\ topNode = "none"
    /\ topSteps = 0
    /\ topMsgs = <<>>
    /\ topNext = Unset
    /\ topDecisions = <<>>
    /\ team = "none"
    /\ teamStatus = "idle"
    /\ teamNode = "none"
    /\ teamSteps = 0
    /\ teamMsgs = <<>>
    /\ teamNext = Unset
    /\ teamDecisions = <<>>
    /\ teamInvoked = <<>>

ToolNext ==
    \/ \E points \in PointsArgs, f \in FileNames : create_outline(points, f)
    \/ \E f \in FileNames, start \in StartArgs, end \in EndArgs :
           read_document(f, start, end)
    \/ \E f \in FileNames : \E content \in TextsFor(f) :
           write_document(content, f)
    \/ \E f \in FileNames : \E inserts \in Inserts(f) :
           edit_document(f, inserts)
    \/ \E outcome \in {"loaded", "ConnectionError"} : scrap_web(outcome)
    \/ \E outcome \in {"ran", "SyntaxError"} : python_repl_tool(outcome)

\* the tools called one after the other on one tools manager
ToolSpec == ToolInit /\ [][ToolNext]_vars

(***************************************************************************)
(* Routing labels (C1, C4, C5).                                            *)
(***************************************************************************)
\* the valid set of the supervisor of graph g: roster and terminal sentinel
ValidSet(g) == members(g) \cup {END}

\* C1: in every graph, whatever the LLM answered, the label the supervisor
\* node routed to (the `next` it wrote) is a member of roster + {TERMINATE}.
C1_RoutedLabelInValidSet ==
    /\ topNext # Unset => topNext \in ValidSet("top")
    /\ (team # "none" /\ teamNext # Unset) => teamNext \in ValidSet(team)

\* a routing output that cannot be parsed (no usable `next`, or the call
\* fails) or that names a label outside the supervisor's valid set
Malformed(g, resp) ==
    \/ resp.kind \in {"raising_object", "invoke_error"}
    \/ resp.next = NoNext
    \/ resp.next \notin members(g) \cup {FINISH}

\* C4: a supervisor visit whose LLM output is malformed routes to TERMINATE:
\* `next` becomes the terminal sentinel, no error is raised and no worker is
\* dispatched (the visit is not repeated).
C4_MalformedRoutesToTerminate ==
    [][/\ \A resp \in Responses("top") :
             (TopSupervisor(resp) /\ Malformed("top", resp))
                 => (topNext' = END /\ status' # "error" /\ topNode' = "none")
       /\ \A g \in Teams : \A resp \in Responses(g) :
             (team = g /\ TeamSupervisor(resp) /\ Malformed(g, resp))
                 => (teamNext' = END /\ status' # "error"
                     /\ teamNode' = "none")]_vars

\* C5: run_sync returns a final state only if the last decision of the
\* top-level supervisor was TERMINATE, and a run the recursion limit stopped
\* (at the top level or inside a team) is a failure, never a returned state.
C5_ReturnOnlyAfterTerminate ==
    /\ status = "returned" => topNext = END
    /\ (failedIn # "none") => status = "limit_exceeded"
    /\ status = "returned" => topSteps < limit

(***************************************************************************)
(* Configuration validation (C6).                                          *)
(***************************************************************************)
KeyMissing == config.groq_api_key = "" \/ config.tavily_api_key = ""

\* C6: with the Tavily or the Groq key empty, construction ends in the
\* configuration error with nothing created (no LLM client, tools manager,
\* team or graph) and no run started; with both present it never does,
\* whatever the OpenAI key is.
C6_MissingKeyFailsBeforeBuild ==
    /\ initPc # "validate" => (initPc = "config_error" <=> KeyMissing)
    /\ KeyMissing => (created = <<>> /\ status = "idle")
    /\ initPc = "config_error" => (created = <<>> /\ status = "idle")

\* the search-provider key alone is empty and construction has failed
C6_Witness ==
    /\ initPc = "config_error"
    /\ config.tavily_api_key = ""
    /\ config.groq_api_key # ""
    /\ created = <<>>

(***************************************************************************)
(* The recursion limit (C2) and termination (C3).                          *)
(***************************************************************************)
\* every label of d is a member of the roster of g: no TERMINATE, no
\* label outside the roster
AllRoster(d, g) == \A i \in 1..Len(d) : d[i] \in members(g)

\* team visits of the top-level graph: every one appended one message
TopTeamVisits == Len(topMsgs) - 1

TopLimitExceeded == status = "limit_exceeded" /\ failedIn = "top"

\* C2: with a top-level supervisor that never chooses TERMINATE, the run is
\* stopped with the exceeded-limit condition after exactly L supervisor
\* round-trips (L visits of the top-level supervisor), not before.
C2_StopsAfterLimitRoundTrips ==
    (TopLimitExceeded /\ AllRoster(topDecisions, "top"))
        => Len(topDecisions) = limit

\* C2 as amended: the limit L (the argument, or the configured default) is
\* counted in node visits of the top-level graph, supervisor and team visits
\* together: the run never makes more than L visits, goes on while it has
\* made fewer, and is stopped with the exceeded-limit condition exactly when
\* the L-th visit is done; with a supervisor that always chose a roster
\* member that is after (L+1) div 2 decisions and L div 2 team visits.
C2_StopsAfterLimitNodeVisits ==
    status # "idle" =>
        /\ limit = IF args.given THEN args.value ELSE config.recursion_limit
        /\ topSteps = Len(topDecisions) + TopTeamVisits
        /\ topSteps <= limit
        /\ status \in {"running", "returned"} => topSteps < limit
        /\ TopLimitExceeded <=> topSteps = limit
        /\ (TopLimitExceeded /\ AllRoster(topDecisions, "top"))
              => /\ Len(topDecisions) = (limit + 1) \div 2
                 /\ TopTeamVisits = limit \div 2

\* a top-level supervisor that never chose TERMINATE was stopped by a limit
\* of several visits
C2_Witness ==
    /\ TopLimitExceeded
    /\ AllRoster(topDecisions, "top")
    /\ limit >= 4
    /\ TopTeamVisits >= 2

\* C3: every run terminates: unless an LLM call itself fails (which ends the
\* run with that exception), a started run eventually returns a final state
\* or fails with the exceeded-limit condition, whatever the supervisors of
\* both levels decide.
C3_EveryRunTerminates ==
    [](status # "error")
        => ((status = "running") ~> (status \in {"returned", "limit_exceeded"}))

\* a run ended by the limit inside a team whose supervisor never chose
\* TERMINATE
C3_Witness ==
    /\ status = "limit_exceeded"
    /\ failedIn \in Teams
    /\ team = failedIn
    /\ Len(teamDecisions) >= 2
    /\ AllRoster(teamDecisions, team)

(***************************************************************************)
(* Scripted team runs (C7).                                                *)
(***************************************************************************)
\* d follows a script d1, ..., dk, TERMINATE over the roster of g, as far
\* as it got: roster members, then possibly the terminal sentinel
Scripted(d, g) ==
    \A i \in 1..Len(d) :
        \/ d[i] \in members(g)
        \/ i = Len(d) /\ d[i] = END

RosterPart(d, g) == SelectSeq(d, LAMBDA x : x \in members(g))

TeamEnded == teamStatus \in {"done", "limit_exceeded"}

TeamWorkerVisit ==
    team # "none" /\ teamSteps' = teamSteps + 1 /\ teamNode \in members(team)

TeamSupervisorVisit ==
    team # "none" /\ teamSteps' = teamSteps + 1 /\ teamNode = "supervisor"

TopTeamVisit == topSteps' = topSteps + 1 /\ topNode \in members("top")

TopSupervisorVisit == topSteps' = topSteps + 1 /\ topNode = "supervisor"

StartsAtSupervisor ==
    /\ (status = "idle" /\ status' = "running") => topNode' = "supervisor"
    /\ (team = "none" /\ team' # "none") => teamNode' = "supervisor"

\* C8: every graph starts at its supervisor, and every visit of a worker
\* node (or team node) is immediately followed by a visit of the
\* enclosing supervisor.
C8_WorkerThenSupervisor ==
    [][/\ StartsAtSupervisor
       /\ TeamWorkerVisit
             => (teamNode' = "supervisor" /\ teamStatus' = "running")
       /\ TopTeamVisit
             => (topNode' = "supervisor" /\ status' = "running")]_vars

\* C8 as amended: every graph starts at its supervisor, and a worker (or
\* team) node hands control to the enclosing supervisor and to nothing else;
\* the supervisor's visit follows at once unless the worker's visit was the
\* last one the recursion limit allows, which stops the run.
C8_WorkerHandsToSupervisor ==
    [][/\ StartsAtSupervisor
       /\ TeamWorkerVisit
             => /\ teamNode' = "supervisor"
                /\ \/ teamStatus' = "running"
                   \/ /\ status' = "limit_exceeded"
                      /\ teamSteps' = NestedLimit(limit)
       /\ TopTeamVisit
             => /\ topNode' = "supervisor"
                /\ \/ status' = "running"
                   \/ TopLimitExceeded' /\ topSteps' = limit]_vars

\* a team supervisor is up again after a worker, in a team the top-level
\* supervisor reached after an earlier team visit
C8_Witness ==
    /\ team = "writing"
    /\ teamStatus = "running"
    /\ teamNode = "supervisor"
    /\ teamInvoked # <<>>
    /\ TopTeamVisits >= 1

\* new is old with exactly one message appended, named after node
AppendsOne(old, new, node) ==
    /\ Len(new) = Len(old) + 1
    /\ \A i \in 1..Len(old) : new[i] = old[i]
    /\ Last(new).name = node

\* C9: a worker (or team) node visit appends exactly one message tagged with
\* the node's name and leaves the earlier messages as they were; a
\* supervisor visit changes `next` alone; nothing else touches the history
\* of a running graph.
C9_HistoryAppendOnly ==
    [][/\ status = "running" =>
             /\ TopTeamVisit
                   => (AppendsOne(topMsgs, topMsgs', topNode)
                       /\ topNext' = topNext)
             /\ ~TopTeamVisit => topMsgs' = topMsgs
       /\ (team # "none" /\ team' = team) =>
             /\ TeamWorkerVisit
                   => (AppendsOne(teamMsgs, teamMsgs', teamNode)
                       /\ teamNext' = teamNext)
             /\ ~TeamWorkerVisit => teamMsgs' = teamMsgs]_vars

\* two workers have appended to the history of a team that an earlier team
\* visit of the top-level graph preceded
C9_Witness ==
    /\ team # "none"
    /\ Len(teamMsgs) >= 3
    /\ teamMsgs[2].name \in members(team)
    /\ teamMsgs[3].name \in members(team)
    /\ TopTeamVisits >= 1
    /\ topMsgs[2].name \in members("top")

\* the top-level node that runs the nested graph of team t
TeamNodeOf(t) == IF t = "research" THEN "research_team" ELSE "writer_team"

\* C10: one node at a time across both levels: a nested graph exists only
\* under its team node of a running top-level graph, the top-level graph
\* makes no visit while a nested graph is unfinished, and a nested visit
\* leaves the top-level state alone.
C10_OneNodeAtATime ==
    /\ [](/\ team # "none" => topNode = TeamNodeOf(team)
          /\ team = "none" => teamStatus = "idle" /\ teamNode = "none"
          /\ (status = "running" /\ topNode = "supervisor") => team = "none")
    /\ [][/\ (topSteps' # topSteps \/ topNext' # topNext
              \/ (status = "running" /\ topMsgs' # topMsgs))
                => (team = "none" \/ (teamStatus = "done" /\ team' = "none"))
          /\ teamSteps' = teamSteps + 1
                => (team # "none" /\ status = "running"
                    /\ topNode = TeamNodeOf(team) /\ UNCHANGED topVars)]_vars

\* a worker of the research team is up while the top-level graph waits in
\* its research_team node
C10_Witness ==
    /\ team = "research"
    /\ teamStatus = "running"
    /\ teamNode \in members("research")
    /\ topNode = "research_team"
    /\ status = "running"
(***************************************************************************)
(* The end-to-end scenario (C11).                                          *)
(***************************************************************************)
\* the run of the scenario has returned: the top-level supervisor routed to
\* the research team, then to the writing team, then to the end, the writing
\* team ran at least one worker (the last message of its final state is a
\* worker's), and no message of the run is empty
ScenarioDone ==
    /\ status = "returned"
    /\ topDecisions = <<"research_team", "writer_team", END>>
    /\ response.name \in members("writing")
    /\ \A i \in 1..Len(topMsgs) : topMsgs[i].content # ""

\* C11 as the claim states it: in the final state of the scenario the last
\* message is attributed to a worker of the writing team (doc_writer,
\* note_taker or chart_generator) and its content is not empty
C11_LastMessageByWritingWorker ==
    ScenarioDone =>
        /\ Last(topMsgs).name \in members("writing")
        /\ Last(topMsgs).content # ""

\* C11, amended: in the final state of the scenario the last message is
\* attributed to the team node writer_team, and its content is the content
\* of the last message of the writing team's last worker, which is not empty
C11_LastMessageByWriterTeam ==
    ScenarioDone =>
        /\ Last(topMsgs).name = "writer_team"
        /\ Last(topMsgs).content = response.content
        /\ Last(topMsgs).content # ""

C11_Witness ==
    /\ ScenarioDone
    /\ Len(topMsgs) = Len(topDecisions)
    /\ Last(topMsgs).name = "writer_team"
    /\ response.content = "txt"

(***************************************************************************)
(* The `next` field (C17).                                                 *)
(***************************************************************************)
\* C17: `next` always names what runs next: after every supervisor decision
\* it is the label the supervisor chose, while a worker or team node is
\* scheduled or executing it is that node's name (so no worker changes it),
\* and in the final state of a completed graph it is the terminal sentinel.
C17_NextNamesWhatRunsNext ==
    /\ topDecisions # <<>> => topNext = Last(topDecisions)
    /\ teamDecisions # <<>> => teamNext = Last(teamDecisions)
    /\ (status = "running" /\ topNode \in members("top")) => topNext = topNode
    /\ (teamStatus = "running" /\ teamNode \in members(team))
           => teamNext = teamNode
    /\ status = "returned" => topNext = END
    /\ teamStatus = "done" => teamNext = END

(***************************************************************************)
(* Team visits at the top level (C18).                                     *)
(***************************************************************************)
\* the step in which a team node calls team.invoke
TeamInvoke == team = "none" /\ team' # "none"

\* C18: a team visit is isolated from the top-level history: the team is
\* invoked with only the last message of the top-level state; while the team
\* runs the top-level history stays as it is; the visit appends exactly one
\* message, tagged research_team or writer_team, whose content is the
\* content of the last message of the team's final state, and which repeats
\* the content the team was given when the team dispatched no worker.
C18_TeamVisitIsolated ==
    [][/\ TeamInvoke => teamMsgs' = <<Last(topMsgs)>>
       /\ (team # "none" /\ ~TopTeamVisit) => topMsgs' = topMsgs
       /\ TopTeamVisit =>
            /\ AppendsOne(topMsgs, topMsgs', topNode)
            /\ topNode \in {"research_team", "writer_team"}
            /\ Last(topMsgs').content = Last(teamMsgs).content
            /\ teamInvoked = <<>> =>
                   Last(topMsgs').content = teamMsgs[1].content]_vars

\* the research team ran a worker and its one message is in the history; the
\* writing team, given that message alone, dispatched no worker, and its
\* message repeats the content
C18_Witness ==
    /\ team = "none"
    /\ Len(topMsgs) = Len(<<"user", "research_team", "writer_team">>)
    /\ topMsgs[Len(topMsgs) - 1] = [name |-> "research_team", content |-> "txt"]
    /\ Last(topMsgs) = [name |-> "writer_team", content |-> "txt"]
    /\ response = topMsgs[Len(topMsgs) - 1]

(***************************************************************************)
(* Construction with valid keys (C20).                                     *)
(***************************************************************************)
\* C20: with both required keys non-empty, the construction of
\* HierarchicalSystem (with the ToolsManager of tools.py, as __init__
\* creates it) goes through all its steps without an error: it is validating,
\* building, or has ended in a ready system.
C20_ConstructionEndsReady ==
    (validate(config) /\ toolsManager = "ToolsManager")
        => initPc \in {"validate", "building", "ready"}

(***************************************************************************)
(* The file tools (C12, C13, C14, C19).                                    *)
(***************************************************************************)
\* the step is a call of edit_document on a document that exists
EditCall ==
    /\ lastCall'.tool = "edit_document"
    /\ CanRead(files, Resolve(lastCall'.file_name))

\* the document an edit_document call works on, before and after the call
Before == files[Resolve(lastCall'.file_name)]
After == files'[Resolve(lastCall'.file_name)]

EditSaved == toolResult'.what = "Document edited and saved to"

\* C12: write_document(content, f) followed by read_document(f) with no
\* start and no end returns exactly content, character for character.
C12_WriteThenReadReturnsContent ==
    [][(/\ lastCall.tool = "write_document"
        /\ toolResult.kind = "returned"
        /\ lastCall'.tool = "read_document"
        /\ lastCall'.file_name = lastCall.file_name
        /\ lastCall'.start = None
        /\ lastCall'.end = None)
       => /\ toolResult'.kind = "returned"
          /\ toolResult'.text = lastCall.content]_vars

\* C13: edit_document with the single insert (k, text), 1 <= k <= n + 1, on
\* a document of n lines leaves the lines 1..k-1 as they were, then text as
\* a line of its own, then the former lines k..n.
C13_SingleInsertKeepsLines ==
    [][\A k \in 1..MaxLineNo :
          (/\ EditCall
           /\ DOMAIN lastCall'.inserts = {k}
           /\ k <= Len(Lines(Before)) + 1)
          => /\ EditSaved
             /\ Lines(After) = Insert(Lines(Before), k - 1,
                                      lastCall'.inserts[k])]_vars

\* the lines without those at the given line numbers
RECURSIVE Without(_, _, _)
Without(lines, numbers, i) ==
    IF i > Len(lines) THEN <<>>
    ELSE (IF i \in numbers THEN <<>> ELSE <<lines[i]>>)
         \o Without(lines, numbers, i + 1)

\* C19: when an edit_document call with several inserts succeeds, line k of
\* the result is text for every entry (k, text), and the result without
\* the inserted lines is the former document, line for line.
C19_InsertsLandOnTheirLines ==
    [][(EditCall /\ EditSaved)
       => /\ \A k \in DOMAIN lastCall'.inserts :
                 /\ k <= Len(Lines(After))
                 /\ Lines(After)[k] = lastCall'.inserts[k]
          /\ Without(Lines(After), DOMAIN lastCall'.inserts, 1)
                 = Lines(Before)]_vars

\* C14 as the claim states it: if a key of inserts is below 1 or beyond the
\* end of the document plus one, the call returns the error text and the
\* stored document stays as it was.
C14_OutOfRangeKeyRejected ==
    [][(/\ EditCall
        /\ \E k \in DOMAIN lastCall'.inserts :
               k < 1 \/ k > Len(Lines(Before)) + 1)
       => /\ toolResult'.what = "Error: Line number is out of range."
          /\ files' = files]_vars

\* the keys beyond the end, plus one, of the document as the inserts with
\* smaller keys leave it, and the keys below 1
Rejected(inserts, n) ==
    {k \in DOMAIN inserts :
        k < 1 \/ k > n + Cardinality({j \in DOMAIN inserts : j < k}) + 1}

\* C14, amended: a key is out of range if it is below 1 or beyond the end
\* plus one of the document grown by one line for every smaller key of the
\* call; if there is such a key the call returns the error text naming the
\* smallest of them and the stored document stays as it was, the inserts
\* made before it included; if there is none the document is edited.
C14_OutOfRangeAsGrownRejected ==
    [][EditCall
       => LET bad == Rejected(lastCall'.inserts, Len(Lines(Before))) IN
          IF bad # {}
          THEN /\ toolResult' =
                      OutOfRange(CHOOSE k \in bad : \A j \in bad : k <= j)
               /\ files' = files
          ELSE EditSaved]_vars

\* an edit_document call was turned down for its second key after the
\* insert of its first, in-range key
C14_Witness ==
    /\ lastCall.tool = "edit_document"
    /\ toolResult.what = "Error: Line number is out of range."
    /\ CanRead(files, Resolve(lastCall.file_name))
    /\ \E k \in DOMAIN lastCall.inserts :
           1 <= k /\ k < toolResult.line_number

(***************************************************************************)
(* Failures and paths of the tools (C15, C16).                             *)
(***************************************************************************)
\* C15: no tool call propagates an exception: every failing call of
\* scrap_web, create_outline, read_document, write_document, edit_document
\* and python_repl_tool returns a text to its caller.
C15_ToolsReturnText == toolResult.kind # "raised"

\* C16: the file tools stay in the working directory: every file they have
\* created lies in it, and so does the file of every call that opened one.
C16_FilesInWorkingDir ==
    /\ \A path \in DOMAIN files : Inside(path)
    /\ (lastCall.file_name \in FileNames /\ toolResult.kind = "returned")
           => Inside(Resolve(lastCall.file_name))

(***************************************************************************)
(* run and run_sync (C21).                                                 *)
(***************************************************************************)
\* the state a run starts from: {"messages": [("user", user_input)]}
InitialState == [messages |-> <<UserMessage>>, next |-> Unset]

\* the state after an update, by the reducers of State: messages are
\* appended, `next` is overwritten when the update has one
Reduce(state, update) ==
    [messages |-> state.messages \o update.messages,
     next |-> IF update.next = <<>> THEN state.next ELSE Head(update.next)]

\* the state reached by applying the updates of the chunks, in order
RECURSIVE Replay(_, _)
Replay(state, chunks) ==
    IF chunks = <<>> THEN state
    ELSE Replay(Reduce(state, Head(chunks).update), Tail(chunks))

\* the state of the top-level graph
GraphState == [messages |-> topMsgs, next |-> topNext]

====
